---- MODULE Spec2Model ----
(***************************************************************************)
(* Question generation and curation pipeline of the lesson-processing      *)
(* service (python-service/app): oracle passes, validation, semantic       *)
(* dedupe, difficulty balancing, persistence and the run status kept in    *)
(* ai.lesson_ai_results.                                                    *)
(*                                                                         *)
(* Python values are modelled as follows.                                  *)
(*   str        a sequence of tokens; a token is a run of characters that  *)
(*              str.strip / str.lower treat uniformly (" " is the          *)
(*              whitespace token).  "" is << >>.                           *)
(*   None       the one-token sequence <<"None">>, never used as a string. *)
(*   list       a sequence; dict: a record.                                *)
(***************************************************************************)
EXTENDS Integers, Sequences, FiniteSets, TLC

VARIABLES
    bal_in,     \* input of the difficulty balancers: [candidates, total_needed]
    bal_out,    \* their result: [fn, selected (indices into candidates), desired]
    pipe_in,    \* input of one pipeline call: [lesson_text, raws, embed]
    pipe_out,   \* its result: [state, rows]
    lesson_ai_results,  \* table ai.lesson_ai_results: row i has id i
    lesson_questions,   \* table ai.lesson_questions, in insertion order
    tasks,              \* background tasks scheduled by the endpoints: task i is run i
    overlapped,         \* per lesson topic: was a request accepted while a run was active
    fn_in,      \* input of one call of a helper function: [fn, ...arguments]
    fn_out,     \* its result: [state, value]
    embed_cache \* the files of .cache/embeddings: a set of [key, value]

balVars == <<bal_in, bal_out>>
pipeVars == <<pipe_in, pipe_out>>
sysVars == <<lesson_ai_results, lesson_questions, tasks, overlapped>>
fnVars == <<fn_in, fn_out, embed_cache>>
vars == <<balVars, pipeVars, sysVars, fnVars>>

----------------------------------------------------------------------------
(* Python built-ins *)

None == <<"None">>

Min(a, b) == IF a <= b THEN a ELSE b
Max(a, b) == IF a >= b THEN a ELSE b

\* truthiness of a str-or-None value: None and "" are falsy
Truthy(s) == s # None /\ s # << >>

\* s[:k], negative k counting from the end
SlicePrefix(s, k) ==
    IF k >= 0 THEN SubSeq(s, 1, Min(k, Len(s)))
    ELSE SubSeq(s, 1, Max(Len(s) + k, 0))

\* str.lower, token by token
LowerTok(c) ==
    CASE c = "A" -> "a"
      [] c = "B" -> "b"
      [] c = "Q" -> "q"
      [] c = "Easy" -> "easy"
      [] c = "Medium" -> "medium"
      [] c = "Hard" -> "hard"
      [] c = "Paris" -> "paris"
      [] c = "Lon" -> "lon"
      [] c = "Rome" -> "rome"
      [] c = "Berlin" -> "berlin"
      [] OTHER -> c

lower(s) == [i \in 1..Len(s) |-> LowerTok(s[i])]

RECURSIVE LStrip(_)
LStrip(s) == IF s # << >> /\ Head(s) = " " THEN LStrip(Tail(s)) ELSE s

RECURSIVE RStrip(_)
RStrip(s) == IF s # << >> /\ s[Len(s)] = " " THEN RStrip(SubSeq(s, 1, Len(s) - 1)) ELSE s

\* str.strip
strip(s) == RStrip(LStrip(s))

\* int(round(num / den)) for the float num/den: round half to even
RoundHalfEven(num, den) ==
    LET q == num \div den
        r == num % den
    IN  IF 2 * r < den THEN q
        ELSE IF 2 * r > den THEN q + 1
        ELSE IF q % 2 = 0 THEN q ELSE q + 1

Indices(s) == [i \in 1..Len(s) |-> i]


----------------------------------------------------------------------------
(* Difficulty ratio enforcement, ai_pipeline.enforce_difficulty_ratio *)

easy == <<"easy">>
medium == <<"medium">>
hard == <<"hard">>

\* ratios = {"easy": 0.3, "medium": 0.4, "hard": 0.3}, in tenths
RatioTenths == [easy |-> 3, medium |-> 4, hard |-> 3]

\* desired = {k: int(round(total_needed * v))}
DesiredRounded(total_needed) ==
    [k \in {"easy", "medium", "hard"} |-> RoundHalfEven(total_needed * RatioTenths[k], 10)]

DesiredSum(desired) == desired["easy"] + desired["medium"] + desired["hard"]

\* keys = ["medium", "easy", "hard"]
ReconcileKeys == <<"medium", "easy", "hard">>

\* while diff != 0: desired[keys[i % 3]] += 1 if diff > 0 else -1
RECURSIVE Reconcile(_, _, _)
ReconcileNoLoop(desired, total_needed, i) == desired
Reconcile(desired, total_needed, i) ==
    LET diff == total_needed - DesiredSum(desired)
        key == ReconcileKeys[(i % Len(ReconcileKeys)) + 1]
    IN  IF diff = 0 THEN desired
        ELSE Reconcile([desired EXCEPT ![key] = @ + (IF diff > 0 THEN 1 ELSE -1)],
                       total_needed, i + 1)

Desired(total_needed) == Reconcile(DesiredRounded(total_needed), total_needed, 0)

\* a difficulty that is a JSON number: truthy, and without a lower() method
NumberValue == <<"<number>">>

\* (c.get("difficulty") or "medium").lower() raises AttributeError
BucketingRaises(candidates) ==
    \E i \in 1..Len(candidates) : candidates[i].difficulty = NumberValue

\* d = (c.get("difficulty") or "medium").lower(); if d not in buckets: d = "medium"
BucketOf(c) ==
    LET d == lower(IF Truthy(c.difficulty) THEN c.difficulty ELSE medium)
    IN  IF d \in {easy, medium, hard} THEN d[1] ELSE "medium"

\* buckets[k]: the indices of the candidates of bucket k, in input order
Bucket(candidates, k) ==
    SelectSeq(Indices(candidates), LAMBDA i : BucketOf(candidates[i]) = k)

\* r not in selected: list membership by dict equality
InByValue(candidates, i, selected) ==
    \E j \in 1..Len(selected) : candidates[selected[j]] = candidates[i]

\* the result as indices into candidates
enforce_difficulty_ratio_idx(candidates, total_needed) ==
    LET desired == Desired(total_needed)
        take(k) == SlicePrefix(Bucket(candidates, k),
                               Min(Len(Bucket(candidates, k)), desired[k]))
        selected == take("easy") \o take("medium") \o take("hard")
        all == Bucket(candidates, "easy") \o Bucket(candidates, "medium")
                   \o Bucket(candidates, "hard")
        remaining == SelectSeq(all, LAMBDA i : ~InByValue(candidates, i, selected))
        filled == IF Len(selected) < total_needed
                  THEN selected \o SlicePrefix(remaining, total_needed - Len(selected))
                  ELSE selected
    IN  SlicePrefix(filled, total_needed)

enforce_difficulty_ratio(candidates, total_needed) ==
    LET sel == enforce_difficulty_ratio_idx(candidates, total_needed)
    IN  [i \in 1..Len(sel) |-> candidates[sel[i]]]

----------------------------------------------------------------------------
(* Difficulty balancing inside the generator, question_generator._balance_difficulty *)

\* [q for q in questions if q["difficulty"] == d]
OfDifficulty(questions, d) ==
    SelectSeq(Indices(questions), LAMBDA i : questions[i].difficulty = d)

\* target_easy = max_count * 3 // 10, ...
BalanceTargets(max_count) ==
    [easy |-> (max_count * 3) \div 10,
     medium |-> (max_count * 4) \div 10,
     hard |-> (max_count * 3) \div 10]

balance_difficulty_idx(questions, max_count) ==
    LET t == BalanceTargets(max_count)
        balanced == SlicePrefix(OfDifficulty(questions, easy), t.easy)
                        \o SlicePrefix(OfDifficulty(questions, medium), t.medium)
                        \o SlicePrefix(OfDifficulty(questions, hard), t.hard)
        remaining == SelectSeq(Indices(questions),
                               LAMBDA i : ~InByValue(questions, i, balanced))
        filled == IF Len(balanced) < max_count
                  THEN balanced \o SlicePrefix(remaining, max_count - Len(balanced))
                  ELSE balanced
    IN  SlicePrefix(filled, max_count)

balance_difficulty(questions, max_count) ==
    LET sel == balance_difficulty_idx(questions, max_count)
    IN  [i \in 1..Len(sel) |-> questions[sel[i]]]

----------------------------------------------------------------------------
(* Candidate dicts as the validator emits them (question_generator.py:281-309) *)

TheoryCandidate(q_text, answer, difficulty) ==
    [question_text |-> q_text, answer_text |-> answer, difficulty |-> difficulty,
     max_score |-> 3, option_a |-> None, option_b |-> None, option_c |-> None,
     option_d |-> None, correct_option |-> None]

----------------------------------------------------------------------------
(* Validation of the parsed oracle items, question_generator._validate_questions_robust *)

\* item.get(key, default)
Get(item, key, default) == IF key \in DOMAIN item THEN item[key] ELSE default

\* options.index(x): the first index holding x
IndexOf(options, x) == CHOOSE i \in 1..Len(options) :
                          options[i] = x /\ \A j \in 1..(i - 1) : options[j] # x

InList(options, x) == \E i \in 1..Len(options) : options[i] = x

\* for opt in options: if opt.lower().strip() == correct_answer.lower().strip()
CaseInsensitiveMatches(options, correct_answer) ==
    SelectSeq(Indices(options),
              LAMBDA i : strip(lower(options[i])) = strip(lower(correct_answer)))

\* lines 261-276: the option the answer is forced to
ResolveCorrectAnswer(options, correct_answer) ==
    IF InList(options, correct_answer) THEN correct_answer
    ELSE IF CaseInsensitiveMatches(options, correct_answer) # << >>
         THEN options[Head(CaseInsensitiveMatches(options, correct_answer))]
         ELSE options[1]

OptionLetters == << <<"A">>, <<"B">>, <<"C">>, <<"D">> >>

\* one iteration of the loop over parsed: "skip" (continue), "accept" (formatted.append
\* and seen.add) or "seen" (seen.add alone, for a type that is neither mcq nor theory)
ValidateItem(item, seen) ==
    LET skip == [outcome |-> "skip"]
    IN  IF "type" \notin DOMAIN item \/ "question_text" \notin DOMAIN item THEN skip
        ELSE LET q_text == strip(item.question_text)
             IN  IF q_text = << >> \/ lower(q_text) \in seen THEN skip
                 ELSE IF item.type = <<"mcq">>
                 THEN LET options == Get(item, "options", << >>)
                          correct_answer ==
                              ResolveCorrectAnswer(options, Get(item, "correct_answer", << >>))
                      IN  IF Len(options) # 4 THEN skip
                          ELSE [outcome |-> "accept",
                                q |-> [question_text |-> q_text,
                                       answer_text |-> correct_answer,
                                       difficulty |-> Get(item, "difficulty", medium),
                                       max_score |-> Get(item, "max_score", 1),
                                       option_a |-> options[1],
                                       option_b |-> options[2],
                                       option_c |-> options[3],
                                       option_d |-> options[4],
                                       correct_option |->
                                           OptionLetters[IndexOf(options, correct_answer)]]]
                 ELSE IF item.type = <<"theory">>
                 THEN LET answer_text == Get(item, "answer_text", << >>)
                      IN  IF ~Truthy(answer_text) THEN skip
                          ELSE [outcome |-> "accept",
                                q |-> [question_text |-> q_text,
                                       answer_text |-> answer_text,
                                       difficulty |-> Get(item, "difficulty", medium),
                                       max_score |-> Get(item, "max_score", 3),
                                       option_a |-> None, option_b |-> None,
                                       option_c |-> None, option_d |-> None,
                                       correct_option |-> None]]
                 ELSE [outcome |-> "seen", text |-> lower(q_text)]

RECURSIVE ValidateLoop(_, _, _)

\* the rest of the loop after an iteration that ended with r
ValidateRest(rest, formatted, seen, r) ==
    CASE r.outcome = "accept" ->
           ValidateLoop(rest, Append(formatted, r.q),
                        seen \cup {lower(r.q.question_text)})
      [] r.outcome = "seen" -> ValidateLoop(rest, formatted, seen \cup {r.text})
      [] OTHER -> ValidateLoop(rest, formatted, seen)

ValidateLoop(parsed, formatted, seen) ==
    IF parsed = << >> THEN formatted
    ELSE ValidateRest(Tail(parsed), formatted, seen, ValidateItem(Head(parsed), seen))

validate_questions_robust(parsed) == ValidateLoop(parsed, << >>, {})

\* the set `seen` after the iterations over parsed, starting from seen
RECURSIVE SeenLoop(_, _)
SeenStep(seen, r) ==
    CASE r.outcome = "accept" -> seen \cup {lower(r.q.question_text)}
      [] r.outcome = "seen" -> seen \cup {r.text}
      [] OTHER -> seen

SeenLoop(parsed, seen) ==
    IF parsed = << >> THEN seen
    ELSE SeenLoop(Tail(parsed), SeenStep(seen, ValidateItem(Head(parsed), seen)))

\* line 253: the item is skipped because q_text.lower() is in seen
SkippedAsSeen(item, seen) ==
    /\ "type" \in DOMAIN item /\ "question_text" \in DOMAIN item
    /\ strip(item.question_text) # << >>
    /\ lower(strip(item.question_text)) \in seen

----------------------------------------------------------------------------
(* One oracle call, question_generator._call_and_parse_questions.               *)
(* The oracle's reply is kept by what the client and the extractor make of it:  *)
(*   kind "raise"     call_openai_completion raises                             *)
(*   kind "array"     text from which _extract_json_robust returns the list     *)
(*                    `items`                                                   *)
(*   kind "garbage"   text from which nothing is recovered                      *)
(*   kind "nonlist"   a JSON object whose "questions" value is a number         *)

RawRaise == [kind |-> "raise", items |-> << >>]
RawGarbage == [kind |-> "garbage", items |-> << >>]
RawNonList == [kind |-> "nonlist", items |-> << >>]
RawArray(items) == [kind |-> "array", items |-> items]

\* _extract_json_robust, for the replies that yield a list
extract_json_robust(raw) == IF raw.kind = "array" THEN raw.items ELSE << >>

\* [raised |-> TRUE] when the call propagates an exception (iterating a number at
\* line 240/245), else the validated list
\* if not parsed: return []; else the validated list
ValidateParsed(parsed) ==
    IF parsed = << >> THEN << >> ELSE validate_questions_robust(parsed)

call_and_parse_propagating(raw) ==
    IF raw.kind \in {"raise", "nonlist"} THEN [raised |-> TRUE, questions |-> << >>]
    ELSE [raised |-> FALSE, questions |-> ValidateParsed(extract_json_robust(raw))]

call_and_parse_questions(raw) ==
    IF raw.kind = "raise" THEN [raised |-> FALSE, questions |-> << >>]
    ELSE IF raw.kind = "nonlist" THEN [raised |-> TRUE, questions |-> << >>]
    ELSE [raised |-> FALSE, questions |-> ValidateParsed(extract_json_robust(raw))]

----------------------------------------------------------------------------
(* Multi-pass generation, question_generator.generate_questions_multi_pass and  *)
(* generate_questions_with_ai.  A lesson text or chunk is kept as               *)
(* [name, words]: its content is opaque, `name` is the token that stands for    *)
(* its leading characters.                                                      *)

\* lesson_text[:200] + "..." if len(lesson_text) > 200 else lesson_text
FallbackAnswer(text) == <<text.name, "[:200]">>

GeneratorFallback(text) ==
    [question_text |-> <<"Summarize the main concepts covered in this lesson.">>,
     answer_text |-> FallbackAnswer(text), difficulty |-> medium, max_score |-> 3,
     option_a |-> None, option_b |-> None, option_c |-> None, option_d |-> None,
     correct_option |-> None]

\* raws: the replies to the content, application and conceptual passes
\* if all_questions: all_questions = _balance_difficulty(all_questions, max_questions)
BalanceIfAny(all_questions, max_questions) ==
    IF all_questions # << >> THEN balance_difficulty(all_questions, max_questions)
    ELSE all_questions

\* if not questions: the fallback item
OrGeneratorFallback(text, questions) ==
    IF questions = << >> THEN <<GeneratorFallback(text)>> ELSE questions

\* p1, p2, p3: the outcomes of the content, application and conceptual passes
generate_questions_multi_pass(text, p1, p2, p3, max_questions) ==
    IF p1.raised \/ p2.raised \/ p3.raised
    THEN [raised |-> TRUE, questions |-> << >>]
    ELSE [raised |-> FALSE,
          questions |-> OrGeneratorFallback(
                            text,
                            BalanceIfAny(p1.questions \o p2.questions \o p3.questions,
                                         max_questions))]

generate_questions_with_ai(text, raws, max_questions) ==
    generate_questions_multi_pass(text, call_and_parse_questions(raws[1]),
                                  call_and_parse_questions(raws[2]),
                                  call_and_parse_questions(raws[3]), max_questions)

----------------------------------------------------------------------------
(* Semantic dedupe, ai_pipeline.semantic_dedupe.  The embedding model is        *)
(* external: `angle` gives each question text the direction of its unit vector  *)
(* in degrees, and the dot product of two unit vectors is the cosine of the     *)
(* angle between them, kept in hundredths.                                      *)

Angles == {0, 30, 32, 60, 90}

CosHundredths(a, b) ==
    LET d == IF a >= b THEN a - b ELSE b - a
    IN  CASE d = 0 -> 100 [] d = 2 -> 100 [] d = 28 -> 88 [] d = 30 -> 87
          [] d = 32 -> 85 [] d = 58 -> 53 [] d = 60 -> 50 [] OTHER -> 0

\* threshold: float = 0.85, in hundredths
DedupeThreshold == 85

RECURSIVE DedupeLoop(_, _, _, _)
RECURSIVE DedupeLoopStrict(_, _, _, _)
DedupeLoopStrict(questions, angle, i, selected) ==
    IF i > Len(questions) THEN selected
    ELSE DedupeLoopStrict(
             questions, angle, i + 1,
             IF \A j \in 1..Len(selected) :
                    CosHundredths(angle[questions[i].question_text],
                                  angle[questions[selected[j]].question_text])
                        <= DedupeThreshold
             THEN Append(selected, i) ELSE selected)
DedupeLoop(questions, angle, i, selected) ==
    IF i > Len(questions) THEN selected
    ELSE LET e == angle[questions[i].question_text]
             keep == \A j \in 1..Len(selected) :
                        CosHundredths(e, angle[questions[selected[j]].question_text])
                            < DedupeThreshold
         IN  DedupeLoop(questions, angle, i + 1,
                        IF keep THEN Append(selected, i) ELSE selected)

semantic_dedupe_idx(questions, angle) ==
    IF questions = << >> THEN << >> ELSE DedupeLoop(questions, angle, 1, << >>)

semantic_dedupe(questions, angle) ==
    LET sel == semantic_dedupe_idx(questions, angle)
    IN  [i \in 1..Len(sel) |-> questions[sel[i]]]

----------------------------------------------------------------------------
(* The pipeline, ai_pipeline.generate_questions_from_lesson, up to the rows it  *)
(* hands to the session (db.add) before db.commit().                            *)

ShortLessonWords == 3000          \* if word_count < 3000
chunk_size == 2500
max_questions_per_chunk == 15
total_max_questions == 30

\* the lesson text as the service passes it: [name, words, empty]
NoTextAvailable == [name |-> "No text available for this lesson.", words |-> 6,
                    empty |-> FALSE]

\* chunks = [" ".join(words[i:i + chunk_size]) for i in range(0, len(words), chunk_size)]
NumChunksFloor(words) == words \div chunk_size

NumChunks(words) == (words + chunk_size - 1) \div chunk_size

Chunk(text, i) ==
    [name |-> "chunk" \o ToString(i),
     words |-> Min(chunk_size, text.words - chunk_size * (i - 1)),
     empty |-> FALSE]

\* the candidates of chunks i..n, a raising call contributing nothing
\* try: ... except Exception: a raising call contributes nothing
CallCandidates(r) == IF r.raised THEN << >> ELSE r.questions

RECURSIVE ChunkCandidates(_, _, _, _)
ChunkCandidates(text, raws, i, n) ==
    IF i > n THEN << >>
    ELSE CallCandidates(generate_questions_with_ai(Chunk(text, i), raws[i],
                                                   max_questions_per_chunk))
             \o ChunkCandidates(text, raws, i + 1, n)

\* lines 238-290; raws[i] holds the three replies of the i-th generation call
Candidates(text, raws) ==
    IF text.words < ShortLessonWords
    THEN CallCandidates(generate_questions_with_ai(text, raws[1], total_max_questions))
    ELSE ChunkCandidates(text, raws, 1, NumChunks(text.words))

\* the number of generation calls the pipeline makes for a lesson of this size
NumCalls(words) == IF words < ShortLessonWords THEN 1 ELSE NumChunks(words)

\* lines 294-300
PipelineFallback(text) ==
    [question_text |-> <<"What is the main idea of this lesson?">>,
     answer_text |-> <<text.name, "[:150]">>, difficulty |-> medium, max_score |-> 1,
     option_a |-> None, option_b |-> None, option_c |-> None, option_d |-> None,
     correct_option |-> None]

\* lines 333-344
SavedAnswer(s) ==
    LET ans == IF Truthy(s.answer_text) THEN strip(s.answer_text) ELSE None
        option_map == [A |-> s.option_a, B |-> s.option_b, C |-> s.option_c,
                       D |-> s.option_d]
        from_option == IF Truthy(s.correct_option)
                       THEN option_map[s.correct_option[1]]
                       ELSE ans
    IN  IF Truthy(ans) THEN ans
        ELSE IF Truthy(from_option) THEN from_option ELSE <<"Not provided">>

\* lines 347-349: if s.get(opt_key) is not None and not str(s[opt_key]).strip()
CleanOption(opt) == IF opt # None /\ strip(opt) = << >> THEN None ELSE opt

\* lines 351-362
Row(s) ==
    [question_text |-> strip(s.question_text),
     answer_text |-> SavedAnswer(s),
     difficulty |-> s.difficulty,
     max_score |-> s.max_score,
     option_a |-> CleanOption(s.option_a),
     option_b |-> CleanOption(s.option_b),
     option_c |-> CleanOption(s.option_c),
     option_d |-> CleanOption(s.option_d),
     correct_option |-> s.correct_option]

\* lines 326-364
RECURSIVE SaveLoop(_, _, _)
RECURSIVE SaveLoopNoSeen(_, _, _)
SaveLoopNoSeen(selected, saved, seen_texts) ==
    IF selected = << >> THEN saved
    ELSE SaveLoopNoSeen(Tail(selected), Append(saved, Row(Head(selected))), seen_texts)
SaveLoop(selected, saved, seen_texts) ==
    IF selected = << >> THEN saved
    ELSE LET s == Head(selected)
             q_text == strip(IF Truthy(s.question_text) THEN s.question_text ELSE << >>)
         IN  IF q_text = << >> \/ lower(q_text) \in seen_texts
             THEN SaveLoop(Tail(selected), saved, seen_texts)
             ELSE SaveLoop(Tail(selected), Append(saved, Row(s)),
                           seen_texts \cup {lower(q_text)})

\* embed = [available, angle]: whether get_embeddings_cached returns, and what
\* lines 292-366: the fallback row, or selection and the save loop
SelectAndSave(text, candidates, sem_filtered) ==
    IF candidates # << >> /\ BucketingRaises(sem_filtered)
    THEN [raised |-> TRUE, rows |-> << >>]
    ELSE [raised |-> FALSE,
          rows |-> IF candidates = << >> THEN <<PipelineFallback(text)>>
                   ELSE SaveLoop(enforce_difficulty_ratio(
                                     sem_filtered,
                                     Min(total_max_questions, Len(sem_filtered))),
                                 << >>, {})]

FilterAndSaveRaising(text, candidates, embed) ==
    IF embed.available
    THEN SelectAndSave(text, candidates, semantic_dedupe(candidates, embed.angle))
    ELSE [raised |-> TRUE, rows |-> << >>]

\* lines 309-314: the dedupe, skipped when the embedding call raises
FilterAndSave(text, candidates, embed) ==
    SelectAndSave(text, candidates,
                  IF embed.available THEN semantic_dedupe(candidates, embed.angle)
                  ELSE candidates)

\* report_ai_progress(lesson_topic_id, "processing", 10 + int(50 * i / max(len(chunks), 1)))
ChunkProgress(i, n) == 10 + (50 * i) \div Max(n, 1)

\* the progress values sent while the candidates are generated (lines 258-290): 60
\* after the single call, ChunkProgress after each chunk, nothing after a call
\* that raised
RECURSIVE ChunkReports(_, _, _, _)
ChunkReports(text, raws, i, n) ==
    IF i > n THEN << >>
    ELSE (IF generate_questions_with_ai(Chunk(text, i), raws[i],
                                        max_questions_per_chunk).raised
          THEN << >> ELSE <<ChunkProgress(i, n)>>)
             \o ChunkReports(text, raws, i + 1, n)

GenerationReports(text, raws) ==
    IF text.words < ShortLessonWords
    THEN IF generate_questions_with_ai(text, raws[1], total_max_questions).raised
         THEN << >> ELSE <<60>>
    ELSE ChunkReports(text, raws, 1, NumChunks(text.words))

\* lines 301-303 and 366-376: "done", 100 follows the commit
DoneReport(commit_ok) == IF commit_ok THEN <<100>> ELSE << >>

\* line 323: 85 follows the selection
SelectReports(candidates, sem_filtered, commit_ok) ==
    IF candidates = << >> THEN DoneReport(commit_ok)
    ELSE IF BucketingRaises(sem_filtered) THEN << >>
    ELSE <<85>> \o DoneReport(commit_ok)

FilterReports(candidates, embed, commit_ok) ==
    SelectReports(candidates,
                  IF embed.available THEN semantic_dedupe(candidates, embed.angle)
                  ELSE candidates,
                  commit_ok)

ReportsOn(text, raws, embed, commit_ok) ==
    <<10>> \o GenerationReports(text, raws)
           \o FilterReports(Candidates(text, raws), embed, commit_ok)

\* the progress values generate_questions_from_lesson passes to report_ai_progress,
\* in order (lines 252-376)
PipelineReports(lesson_text, raws, embed, commit_ok) ==
    IF lesson_text.empty THEN << >>
    ELSE IF lesson_text.words = 0 THEN ReportsOn(NoTextAvailable, raws, embed, commit_ok)
    ELSE ReportsOn(lesson_text, raws, embed, commit_ok)

generate_questions_from_lesson(lesson_text, raws, embed) ==
    IF lesson_text.empty THEN [raised |-> TRUE, rows |-> << >>]
    ELSE IF lesson_text.words = 0
    THEN FilterAndSave(NoTextAvailable, Candidates(NoTextAvailable, raws), embed)
    ELSE FilterAndSave(lesson_text, Candidates(lesson_text, raws), embed)

\* report_ai_progress (lines 148-184): the POST answers 200 ("ok") or another status
\* ("non200"), or requests.post raises, a timeout included ("exception").  The body
\* is one try/except Exception and a non-200 answer is only logged.
ReportOutcomes == {"ok", "non200", "exception"}

report_ai_progress_unguarded(outcome) == [raised |-> outcome = "exception"]

report_ai_progress(outcome) == [raised |-> FALSE]

\* reporter = [fail_at, how]: the progress values whose report does not succeed,
\* and the way it fails
AllReportsOk == [fail_at |-> {}, how |-> "ok"]

OutcomeAt(reporter, progress) ==
    IF progress \in reporter.fail_at THEN reporter.how ELSE "ok"

SomeReportRaises(sent, reporter) ==
    \E k \in 1..Len(sent) : report_ai_progress(OutcomeAt(reporter, sent[k])).raised

\* the pipeline with its calls of the reporter
PipelineRun(lesson_text, raws, embed, reporter) ==
    IF SomeReportRaises(PipelineReports(lesson_text, raws, embed, TRUE), reporter)
    THEN [raised |-> TRUE, rows |-> << >>]
    ELSE generate_questions_from_lesson(lesson_text, raws, embed)

----------------------------------------------------------------------------
(* The balancers applied to bounded inputs *)

MaxN == 31          \* largest target count tried
MaxLen == 3         \* longest hand-enumerated candidate list

NoOut == [fn |-> "none", selected |-> << >>, desired |-> DesiredRounded(0)]

\* a list of ne easy, nm medium and nh hard candidates with pairwise distinct texts,
\* grouped by difficulty in the order given by pat
GenCandidates(ne, nm, nh, pat) ==
    LET n == ne + nm + nh
        diffOf(i) ==
            IF pat = "easy_first"
            THEN (IF i <= ne THEN easy ELSE IF i <= ne + nm THEN medium ELSE hard)
            ELSE (IF i <= nh THEN hard ELSE IF i <= nh + nm THEN medium ELSE easy)
    IN  [i \in 1..n |-> TheoryCandidate(<<"q", ToString(i)>>, <<"a">>, diffOf(i))]

BucketSizes == {0, 1, 2, MaxN \div 2}

GeneratedLists ==
    {GenCandidates(ne, nm, nh, pat) :
        ne \in BucketSizes, nm \in BucketSizes, nh \in BucketSizes,
        pat \in {"easy_first", "hard_first"}}

\* candidates that may be equal field by field, with difficulties outside the enum
CandidatePool ==
    {TheoryCandidate(t, <<"a">>, d) :
        t \in {<<"q", "1">>, <<"q", "2">>}, d \in {easy, medium, hard}}
    \cup {TheoryCandidate(<<"q", "1">>, <<"a">>, <<"Easy">>),
          TheoryCandidate(<<"q", "2">>, <<"a">>, None)}

SeqsUpTo(S, n) == UNION {[1..k -> S] : k \in 0..n}

NoPipeIn == [lesson_text |-> [name |-> "none", words |-> 0, empty |-> TRUE],
             raws |-> << >>, embed |-> [available |-> FALSE],
             reporter |-> AllReportsOk]
NoPipeOut == [state |-> "none", rows |-> << >>]
NoBalIn == [candidates |-> << >>, total_needed |-> 0]

PipeIdle == pipe_in = NoPipeIn /\ pipe_out = NoPipeOut
SysIdle == /\ lesson_ai_results = << >> /\ lesson_questions = << >>
           /\ tasks = << >> /\ overlapped = << >>
BalIdle == bal_in = NoBalIn /\ bal_out = NoOut
NoFnIn == [fn |-> "none"]
NoFnOut == [state |-> "none"]
FnIdle == fn_in = NoFnIn /\ fn_out = NoFnOut /\ embed_cache = {}

BalInit ==
    /\ PipeIdle /\ SysIdle /\ FnIdle
    /\ bal_in \in [candidates : GeneratedLists \cup SeqsUpTo(CandidatePool, MaxLen),
                   total_needed : 0..MaxN]
    /\ bal_out = NoOut

ApplyEnforce ==
    /\ bal_out = NoOut
    /\ bal_out' = [fn |-> "enforce",
                   selected |-> enforce_difficulty_ratio_idx(bal_in.candidates,
                                                             bal_in.total_needed),
                   desired |-> Desired(bal_in.total_needed)]
    /\ UNCHANGED <<bal_in, pipeVars, sysVars, fnVars>>

ApplyBalance ==
    /\ bal_out = NoOut
    /\ bal_out' = [fn |-> "balance",
                   selected |-> balance_difficulty_idx(bal_in.candidates,
                                                       bal_in.total_needed),
                   desired |-> BalanceTargets(bal_in.total_needed)]
    /\ UNCHANGED <<bal_in, pipeVars, sysVars, fnVars>>

BalNext == ApplyEnforce \/ ApplyBalance

SpecBal == BalInit /\ [][BalNext]_vars

\* how many of the selected candidates fall into bucket k
SelectedIn(k) ==
    Cardinality({j \in 1..Len(bal_out.selected) :
                    BucketOf(bal_in.candidates[bal_out.selected[j]]) = k})

EveryBucketFull ==
    \A k \in {"easy", "medium", "hard"} :
        Len(Bucket(bal_in.candidates, k)) >= bal_out.desired[k]

C10_ExactCount ==
    bal_out.fn # "none" =>
        /\ Len(bal_out.selected) = Min(bal_in.total_needed, Len(bal_in.candidates))
        /\ \A j \in 1..Len(bal_out.selected) :
                bal_out.selected[j] \in 1..Len(bal_in.candidates)
        /\ \A i, j \in 1..Len(bal_out.selected) :
                i # j => bal_out.selected[i] # bal_out.selected[j]

\* the bucket k of the balancer that ran, as indices in input order
RanBucket(k) ==
    IF bal_out.fn = "enforce" THEN Bucket(bal_in.candidates, k)
    ELSE OfDifficulty(bal_in.candidates, <<k>>)

\* the earliest candidates of every bucket, up to the bucket's quota
QuotaPick ==
    UNION { {RanBucket(k)[j] : j \in 1..Min(Len(RanBucket(k)), bal_out.desired[k])} :
            k \in {"easy", "medium", "hard"} }

Leftover == (1..Len(bal_in.candidates)) \ QuotaPick

\* the leftover candidates that fill the slots still open, earliest in input order
InputOrderFill ==
    {i \in Leftover :
        Cardinality({j \in Leftover : j < i}) < bal_in.total_needed - Cardinality(QuotaPick)}

DistinctCandidates ==
    \A i, j \in 1..Len(bal_in.candidates) :
        i # j => bal_in.candidates[i] # bal_in.candidates[j]

\* C23: the balancers take from each bucket its earliest candidates up to the quota
\* and, when short of N, fill the open slots with the leftover candidates in their
\* original input order regardless of bucket.
C23_StableFill ==
    (bal_out.fn # "none" /\ DistinctCandidates)
    => {bal_out.selected[j] : j \in 1..Len(bal_out.selected)}
           = QuotaPick \cup InputOrderFill

----------------------------------------------------------------------------
(* The pipeline applied to bounded oracle replies *)

MaxItems == 2       \* most items in one oracle reply
MaxChunks == 3      \* most chunks of a long lesson

q1 == <<"q", "1">>
q2 == <<"q", "2">>
q3 == <<"q", "3">>
GoodOptions == << <<"a">>, <<"b">>, <<"c">>, <<"d">> >>
BlankFirstOptions == << <<" ">>, <<"b">>, <<"c">>, <<"d">> >>

\* the objects an oracle reply may hold
ItemPool ==
    { [type |-> <<"mcq">>, question_text |-> q1, options |-> GoodOptions,
       correct_answer |-> <<"b">>, difficulty |-> easy],
      [type |-> <<"mcq">>, question_text |-> q1, options |-> GoodOptions,
       correct_answer |-> <<"B", " ">>],
      [type |-> <<"mcq">>, question_text |-> q2, options |-> BlankFirstOptions,
       correct_answer |-> <<"z">>, difficulty |-> hard],
      [type |-> <<"mcq">>, question_text |-> q3, options |-> <<<<"a">>, <<"b">>, <<"c">>>>,
       correct_answer |-> <<"a">>, difficulty |-> easy],
      [type |-> <<"theory">>, question_text |-> q1, answer_text |-> <<"a">>,
       difficulty |-> easy],
      [type |-> <<"theory">>, question_text |-> q2, answer_text |-> <<"a">>,
       difficulty |-> hard],
      [type |-> <<"theory">>, question_text |-> <<" ", "Q", "1">>, answer_text |-> <<"a">>,
       difficulty |-> medium],
      [type |-> <<"theory">>, question_text |-> q3, difficulty |-> medium],
      [type |-> <<"theory">>, question_text |-> q3, answer_text |-> <<"a">>,
       difficulty |-> NumberValue],
      [question_text |-> q2, answer_text |-> <<"a">>],
      [type |-> <<"essay">>, question_text |-> q2, answer_text |-> <<"a">>] }

RawPool == {RawRaise, RawGarbage, RawNonList}
               \cup {RawArray(items) : items \in SeqsUpTo(ItemPool, MaxItems)}

SmallRawPool ==
    {RawRaise, RawGarbage,
     RawArray(<<[type |-> <<"theory">>, question_text |-> q2, answer_text |-> <<"a">>,
                 difficulty |-> hard]>>)}

\* the replies to the three passes of one generation call
ShortCalls == {<<r1, r2, r3>> : r1 \in RawPool, r2 \in SmallRawPool, r3 \in SmallRawPool}

ChunkCalls ==
    { <<RawGarbage, RawGarbage, RawGarbage>>,
      <<RawRaise, RawGarbage, RawRaise>>,
      <<RawNonList, RawGarbage, RawGarbage>>,
      <<RawArray(<<[type |-> <<"theory">>, question_text |-> q1, answer_text |-> <<"a">>,
                    difficulty |-> easy]>>), RawGarbage, RawGarbage>>,
      <<RawGarbage, RawArray(<<[type |-> <<"mcq">>, question_text |-> q2,
                                options |-> BlankFirstOptions,
                                correct_answer |-> <<" ">>]>>), RawRaise>> }

ShortTexts == {[name |-> "lesson", words |-> w, empty |-> FALSE] :
                  w \in {0, 1, ShortLessonWords - 1}}
                  \cup {[name |-> "lesson", words |-> 0, empty |-> TRUE]}

LongTexts == {[name |-> "lesson", words |-> w, empty |-> FALSE] :
                 w \in {ShortLessonWords} \cup {chunk_size * k : k \in 2..MaxChunks}
                          \cup {chunk_size * (k - 1) + 1 : k \in 3..MaxChunks}}

\* the question texts an accepted candidate can carry
QTexts == {q1, <<"Q", "1">>, q2, q3,
           <<"Summarize the main concepts covered in this lesson.">>}

\* lesson: the direction of the embedding of the lesson text
EmbedChoices ==
    {[available |-> FALSE]}
        \cup {[available |-> TRUE, lesson |-> 0, angle |-> [t \in QTexts |-> 0]],
              [available |-> TRUE, lesson |-> 0,
               angle |-> [t \in QTexts |-> CASE t = q1 -> 0 [] t = q2 -> 60 [] OTHER -> 30]],
              [available |-> TRUE, lesson |-> 0,
               angle |-> [t \in QTexts |-> CASE t = q1 -> 0 [] t = q3 -> 30 [] OTHER -> 60]]}

\* the reporters that fail at some of the pipeline's checkpoints
FailingReporters ==
    [fail_at : (SUBSET {10, 60, 85, 100}) \ {{}}, how : ReportOutcomes \ {"ok"}]

\* runs of a one-word lesson with a failing reporter
ReporterRuns ==
    [lesson_text : {[name |-> "lesson", words |-> 1, empty |-> FALSE]},
     raws : {<<c>> : c \in ChunkCalls}, embed : EmbedChoices, reporter : FailingReporters]

MaxBulk == 16       \* most questions the passes of one chunk return

NumberedItem(i) ==
    [type |-> <<"theory">>, question_text |-> <<"q", ToString(i)>>,
     answer_text |-> <<"a">>, difficulty |-> medium]

\* a call whose first two passes return n different questions between them
BulkCall(n) ==
    << RawArray([i \in 1..(n \div 2) |-> NumberedItem(i)]),
       RawArray([i \in 1..(n - n \div 2) |-> NumberedItem(n \div 2 + i)]),
       RawGarbage >>

TailCall ==
    << RawArray(<<[type |-> <<"theory">>, question_text |-> <<"tail">>,
                   answer_text |-> <<"a">>, difficulty |-> medium]>>),
       RawGarbage, RawGarbage >>

\* embeddings under which all these questions are pairwise dissimilar
BulkEmbeds ==
    {[available |-> FALSE],
     [available |-> TRUE, lesson |-> 0,
      angle |-> [t \in {<<"q", ToString(i)>> : i \in 1..MaxBulk} \cup {<<"tail">>} |->
                    IF t = <<"tail">> THEN 0
                    ELSE 100 * (CHOOSE i \in 1..MaxBulk : t = <<"q", ToString(i)>>)]]}

\* runs of a two-chunk lesson whose first chunk returns many questions
BulkRuns ==
    [lesson_text : {[name |-> "lesson", words |-> 2 * chunk_size, empty |-> FALSE]},
     raws : {<<BulkCall(n), TailCall>> : n \in 2..MaxBulk},
     embed : BulkEmbeds, reporter : {AllReportsOk}]

PipeInit ==
    /\ BalIdle /\ SysIdle /\ FnIdle
    /\ pipe_in \in
          [lesson_text : ShortTexts, raws : {<<c>> : c \in ShortCalls}, embed : EmbedChoices,
           reporter : {AllReportsOk}]
          \cup UNION {[lesson_text : {t}, raws : [1..NumCalls(t.words) -> ChunkCalls],
                       embed : EmbedChoices, reporter : {AllReportsOk}] : t \in LongTexts}
          \cup ReporterRuns \cup BulkRuns
    /\ pipe_out = NoPipeOut

PipeOut(r) == [state |-> IF r.raised THEN "raised" ELSE "returned", rows |-> r.rows]

RunPipeline ==
    /\ pipe_out = NoPipeOut
    /\ pipe_out' = PipeOut(PipelineRun(pipe_in.lesson_text, pipe_in.raws, pipe_in.embed,
                                       pipe_in.reporter))
    /\ UNCHANGED <<pipe_in, balVars, sysVars, fnVars>>

PipeNext == RunPipeline

SpecPipe == PipeInit /\ [][PipeNext]_vars

\* LessonQuestion.is_mcq (models/lesson_question.py:65-68), or a correct_option set
IsMcqRow(r) ==
    \/ r.correct_option # None
    \/ \E o \in {r.option_a, r.option_b, r.option_c, r.option_d} : Truthy(o)

OptionNamed(r) ==
    [A |-> r.option_a, B |-> r.option_b, C |-> r.option_c, D |-> r.option_d]
        [r.correct_option[1]]

\* C3: every persisted multiple-choice question has a correct_option among A..D
\* that names a non-null option column.
C3_McqAnswer ==
    \A i \in 1..Len(pipe_out.rows) :
        LET r == pipe_out.rows[i]
        IN  IsMcqRow(r) =>
                /\ r.correct_option \in {<<"A">>, <<"B">>, <<"C">>, <<"D">>}
                /\ OptionNamed(r) # None

\* the text the pipeline works on, and the candidates its generation calls return
EffectiveText == IF pipe_in.lesson_text.words = 0 THEN NoTextAvailable
                 ELSE pipe_in.lesson_text

RunCandidates == Candidates(EffectiveText, pipe_in.raws)

\* C15: when the embedding service is unavailable or raises during filtering, the
\* filter stage hands its input list on unchanged: the run's result is the one
\* selection and persistence produce from the unfiltered candidates, and the run
\* does not fail because of the filter.
C15_FilterNoOp ==
    (pipe_out # NoPipeOut /\ ~pipe_in.lesson_text.empty /\ ~pipe_in.embed.available)
    => /\ pipe_out = PipeOut(SelectAndSave(EffectiveText, RunCandidates, RunCandidates))
       /\ pipe_out.state = "raised" => BucketingRaises(RunCandidates)

\* embedding unavailable, several candidates, and all their rows persisted
C15_Witness ==
    /\ pipe_out.state = "returned" /\ ~pipe_in.embed.available
    /\ ~pipe_in.lesson_text.empty
    /\ Len(RunCandidates) >= 2
    /\ Len(pipe_out.rows) = Len(RunCandidates)

\* the replies of the run with every raising oracle call replaced by a reply
\* from which nothing is extracted
WithoutRaises ==
    [c \in DOMAIN pipe_in.raws |->
        [p \in DOMAIN pipe_in.raws[c] |->
            IF pipe_in.raws[c][p] = RawRaise THEN RawGarbage ELSE pipe_in.raws[c][p]]]

SomePassRaises ==
    \E c \in DOMAIN pipe_in.raws : \E p \in DOMAIN pipe_in.raws[c] :
        pipe_in.raws[c][p] = RawRaise

\* C16: an oracle exception in a pass only empties that pass: the run ends as the
\* run in which those passes return nothing usable, so the candidates of the other
\* passes and chunks reach the aggregate and the exception does not fail the run.
C16_PassIsolated ==
    (pipe_out # NoPipeOut /\ SomePassRaises)
    => pipe_out = PipeOut(generate_questions_from_lesson(pipe_in.lesson_text,
                                                         WithoutRaises, pipe_in.embed))

\* a pass raised, another pass of the same call returned a question, and that
\* question was persisted
C16_Witness ==
    /\ pipe_out.state = "returned"
    /\ \E c \in DOMAIN pipe_in.raws : \E p, o \in DOMAIN pipe_in.raws[c] :
          /\ pipe_in.raws[c][p] = RawRaise
          /\ pipe_in.raws[c][o].kind = "array"
          /\ ValidateParsed(pipe_in.raws[c][o].items) # << >>
          /\ \E i \in DOMAIN pipe_out.rows :
                pipe_out.rows[i].question_text
                    = strip(ValidateParsed(pipe_in.raws[c][o].items)[1].question_text)

\* the progress values the run passed to the reporter
RunReports == PipelineReports(pipe_in.lesson_text, pipe_in.raws, pipe_in.embed, TRUE)

\* C18: a reporter failure at any checkpoint (exception, timeout, non-200 answer)
\* leaves the run's outcome as it is when every report succeeds: the same rows
\* persisted and the same return or failure, which decides the terminal status.
C18_ReporterBestEffort ==
    (pipe_out # NoPipeOut /\ pipe_in.reporter # AllReportsOk)
    => pipe_out = PipeOut(PipelineRun(pipe_in.lesson_text, pipe_in.raws, pipe_in.embed,
                                      AllReportsOk))

\* every report of the run raised, and the run returned with rows
C18_Witness ==
    /\ pipe_out.state = "returned" /\ pipe_out.rows # << >>
    /\ pipe_in.reporter.how = "exception"
    /\ Len(RunReports) >= 3
    /\ \A k \in 1..Len(RunReports) : RunReports[k] \in pipe_in.reporter.fail_at

\* the validated questions of the three passes of one generation call
PassQuestions(call) ==
    call_and_parse_questions(call[1]).questions
        \o call_and_parse_questions(call[2]).questions
        \o call_and_parse_questions(call[3]).questions

\* the candidates of all passes of calls c.. of the run, in order
RECURSIVE AggregateFrom(_)
AggregateFrom(c) ==
    IF c > Len(pipe_in.raws) THEN << >>
    ELSE PassQuestions(pipe_in.raws[c]) \o AggregateFrom(c + 1)

\* what the duplicate filter leaves of a list in this run
FilterOf(list) ==
    IF pipe_in.embed.available THEN semantic_dedupe(list, pipe_in.embed.angle) ELSE list

\* a run in which every reply is a list or unparseable, every call yields a question,
\* and the questions have pairwise different, non-blank texts and usable difficulties
PlainRun ==
    /\ pipe_in.lesson_text.words > 0
    /\ \A c \in DOMAIN pipe_in.raws :
          /\ \A p \in DOMAIN pipe_in.raws[c] : pipe_in.raws[c][p].kind \in {"array", "garbage"}
          /\ PassQuestions(pipe_in.raws[c]) # << >>
    /\ ~BucketingRaises(AggregateFrom(1))
    /\ \A i, j \in DOMAIN AggregateFrom(1) :
          /\ strip(AggregateFrom(1)[i].question_text) # << >>
          /\ i # j => lower(strip(AggregateFrom(1)[i].question_text))
                          # lower(strip(AggregateFrom(1)[j].question_text))

\* C19: the candidates of all passes are aggregated, filtered, and only then cut to
\* N: the number of questions persisted is min(N, number of candidates the filter
\* leaves of the full aggregate).
C19_CutAfterFilter ==
    (pipe_out.state = "returned" /\ PlainRun)
    => Len(pipe_out.rows) = Min(total_max_questions, Len(FilterOf(AggregateFrom(1))))

\* similarity_threshold of semantic_filter_and_dedupe (question_generator.py:98),
\* in hundredths
RelevanceThreshold == 40

\* C20: with the embedding service available, no persisted question has a cosine
\* similarity to the lesson text below the relevance threshold.
C20_RelevanceGate ==
    (pipe_out.state = "returned" /\ pipe_in.embed.available)
    => \A i \in DOMAIN pipe_out.rows :
           pipe_out.rows[i].question_text \in DOMAIN pipe_in.embed.angle
           => CosHundredths(pipe_in.embed.angle[pipe_out.rows[i].question_text],
                            pipe_in.embed.lesson) >= RelevanceThreshold

\* the replies of the run with every reply whose questions value is no list
\* replaced by a reply from which nothing is extracted
WithoutNonLists ==
    [c \in DOMAIN pipe_in.raws |->
        [p \in DOMAIN pipe_in.raws[c] |->
            IF pipe_in.raws[c][p] = RawNonList THEN RawGarbage ELSE pipe_in.raws[c][p]]]

SomePassNonList ==
    \E c \in DOMAIN pipe_in.raws : \E p \in DOMAIN pipe_in.raws[c] :
        pipe_in.raws[c][p] = RawNonList

\* C22: whatever the reply of one pass contains, only that pass loses candidates: a
\* run with a reply whose questions value is no list ends as the run in which that
\* pass yields nothing, the other passes' candidates reaching the aggregate.
C22_BadReplyIsolated ==
    (pipe_out # NoPipeOut /\ SomePassNonList)
    => pipe_out = PipeOut(generate_questions_from_lesson(pipe_in.lesson_text,
                                                         WithoutNonLists, pipe_in.embed))

\* the lists the validator is given in this run
RunBatches ==
    {pipe_in.raws[c][p].items : c \in DOMAIN pipe_in.raws, p \in 1..3}

\* the texts, trimmed and case-folded, of the items accepted among the first n of a batch
AcceptedTexts(batch, n) ==
    {lower(strip(validate_questions_robust(SubSeq(batch, 1, n))[k].question_text)) :
        k \in DOMAIN validate_questions_robust(SubSeq(batch, 1, n))}

\* C26: the validator drops an item as a duplicate exactly when an item with the same
\* trimmed, case-folded question text was accepted earlier in the same batch, and no
\* two rows persisted by a run have texts equal after trimming and case-folding.
C26_ExactTextDedupe ==
    pipe_out # NoPipeOut
    => /\ \A batch \in RunBatches : \A i \in DOMAIN batch :
              SkippedAsSeen(batch[i], SeenLoop(SubSeq(batch, 1, i - 1), {}))
              <=> ( /\ "question_text" \in DOMAIN batch[i]
                    /\ "type" \in DOMAIN batch[i]
                    /\ lower(strip(batch[i].question_text))
                          \in AcceptedTexts(batch, i - 1) )
       /\ \A i, j \in DOMAIN pipe_out.rows :
              lower(strip(pipe_out.rows[i].question_text))
                 = lower(strip(pipe_out.rows[j].question_text)) => i = j

\* C27: every candidate the validator accepts and every persisted row has a
\* difficulty that is one of easy, medium, hard.
C27_DifficultyEnum ==
    pipe_out # NoPipeOut
    => /\ \A batch \in RunBatches :
              \A k \in DOMAIN validate_questions_robust(batch) :
                  validate_questions_robust(batch)[k].difficulty \in {easy, medium, hard}
       /\ \A i \in DOMAIN pipe_out.rows :
              pipe_out.rows[i].difficulty \in {easy, medium, hard}

\* the question texts of the two fallback items (question_generator.py:572,
\* ai_pipeline.py:296)
FallbackTexts ==
    {<<"Summarize the main concepts covered in this lesson.">>,
     <<"What is the main idea of this lesson?">>}

\* some pass of some call of the run yields a valid candidate
SomePassYields ==
    \E c \in DOMAIN pipe_in.raws : \E p \in 1..3 :
        pipe_in.raws[c][p].kind = "array"
            /\ validate_questions_robust(pipe_in.raws[c][p].items) # << >>

\* C29: a fallback item is persisted only when no generated candidate survives the
\* run: when some pass or chunk yields a valid candidate, no persisted row of the
\* run is a fallback item.
C29_FallbackOnlyWhenEmpty ==
    (pipe_out.state = "returned" /\ SomePassYields)
    => \A i \in DOMAIN pipe_out.rows : pipe_out.rows[i].question_text \notin FallbackTexts

\* what chunk i of the run's text contributes to the aggregate
ChunkYield(i) ==
    CallCandidates(generate_questions_with_ai(Chunk(EffectiveText, i), pipe_in.raws[i],
                                              max_questions_per_chunk))

\* C24: a lesson of fewer than 3000 words is one generation call with quota N; a
\* longer one is cut into consecutive chunks of exactly 2500 words, the last one
\* holding the rest and at least one word, every chunk is the subject of one call
\* with quota 15 and contributes at most 15 candidates.
C24_Chunking ==
    (pipe_out # NoPipeOut /\ ~pipe_in.lesson_text.empty)
    => IF EffectiveText.words < ShortLessonWords
       THEN /\ NumCalls(EffectiveText.words) = 1
            /\ RunCandidates = CallCandidates(generate_questions_with_ai(
                                                  EffectiveText, pipe_in.raws[1],
                                                  total_max_questions))
            /\ Len(RunCandidates) <= total_max_questions
       ELSE /\ NumCalls(EffectiveText.words) = NumChunks(EffectiveText.words)
            /\ \A i \in 1..(NumChunks(EffectiveText.words) - 1) :
                  Chunk(EffectiveText, i).words = chunk_size
            /\ Chunk(EffectiveText, NumChunks(EffectiveText.words)).words \in 1..chunk_size
            /\ chunk_size * (NumChunks(EffectiveText.words) - 1)
                  + Chunk(EffectiveText, NumChunks(EffectiveText.words)).words
                  = EffectiveText.words
            /\ \A i \in 1..NumChunks(EffectiveText.words) :
                  Len(ChunkYield(i)) <= max_questions_per_chunk
            /\ RunCandidates = ChunkCandidates(EffectiveText, pipe_in.raws, 1,
                                               NumChunks(EffectiveText.words))

\* a lesson of three chunks whose last chunk is shorter than the others
C24_Witness ==
    /\ pipe_out.state = "returned"
    /\ pipe_in.lesson_text.words >= ShortLessonWords
    /\ pipe_in.lesson_text.words % chunk_size # 0
    /\ Len(pipe_in.raws) = 3
    /\ Len(pipe_out.rows) >= 2

\* every pass of every generation call of the run got an unparseable reply
AllGarbage ==
    /\ pipe_in.raws # << >>
    /\ \A c \in 1..Len(pipe_in.raws) : \A p \in 1..3 : pipe_in.raws[c][p] = RawGarbage

\* C4: when every oracle pass of a run returns unparseable output, the run hands
\* exactly one question to the store, of difficulty medium and with an answer text.
C4_ZeroYield ==
    (pipe_out.state = "returned" /\ AllGarbage) =>
        /\ Len(pipe_out.rows) = 1
        /\ pipe_out.rows[1].difficulty = medium
        /\ pipe_out.rows[1].answer_text # None

\* a three-chunk lesson, all nine passes unparseable, embedding unavailable
C4_Witness ==
    /\ pipe_out.state = "returned" /\ AllGarbage
    /\ Len(pipe_in.raws) = 3
    /\ ~pipe_in.embed.available
    /\ Len(pipe_out.rows) = 1

----------------------------------------------------------------------------
(* The service: endpoints of lesson_processing/router.py, the background task   *)
(* process_lesson_in_background and LessonAIService.process_lesson.             *)

MaxTopics == 1      \* lesson topics in academic.lesson_topics
MaxRequests == 3    \* requests accepted, i.e. background tasks scheduled
MaxActive == 2      \* background tasks running at the same time

Topics == 1..MaxTopics

\* ids of the ai.lesson_ai_results rows of a topic
RecordsOf(topic) ==
    {i \in 1..Len(lesson_ai_results) : lesson_ai_results[i].lesson_topic_id = topic}

TasksOf(topic) ==
    {t \in 1..Len(tasks) : lesson_ai_results[tasks[t].lesson_id].lesson_topic_id = topic}

Active(t) == tasks[t].pc # "finished"

\* a request is accepted while the model's bounds leave room for its background task
Accepting ==
    /\ Len(tasks) < MaxRequests
    /\ Cardinality({t \in 1..Len(tasks) : Active(t)}) < MaxActive

\* DELETE FROM ai.lesson_questions WHERE lesson_id = :lesson_id
DeleteQuestions(lesson_id) ==
    SelectSeq(lesson_questions, LAMBDA r : r.lesson_id # lesson_id)

NewTask(lesson_id) ==
    [lesson_id |-> lesson_id, pc |-> "queued", text |-> NoPipeIn.lesson_text,
     cause |-> "none", reports |-> << >>]

NoteOverlap(topic) ==
    overlapped' = [overlapped EXCEPT
                     ![topic] = @ \/ \E t \in TasksOf(topic) : Active(t)]

\* POST /ai/process-lesson (router.py:157-220).  `existing` is the row fetchone()
\* returns for a query without ORDER BY: any row of the topic.
ProcessLessonEndpoint(topic) ==
    /\ Accepting
    /\ \E existing \in RecordsOf(topic) \cup {0} :
          /\ existing = 0 <=> RecordsOf(topic) = {}
          /\ lesson_questions' = IF existing = 0 THEN lesson_questions
                                 ELSE DeleteQuestions(existing)
    /\ lesson_ai_results' = Append(lesson_ai_results,
                                   [lesson_topic_id |-> topic, status |-> "pending",
                                    progress |-> 0])
    /\ tasks' = Append(tasks, NewTask(Len(lesson_ai_results) + 1))
    /\ NoteOverlap(topic)
    /\ UNCHANGED <<balVars, pipeVars, fnVars>>

\* ORDER BY created_at DESC LIMIT 1: the row created last
LatestRecord(topic) == CHOOSE i \in RecordsOf(topic) : \A j \in RecordsOf(topic) : j <= i

\* POST /ai/regenerate/{lesson_topic_id} (router.py:366-431)
RegenerateLessonAi(topic) ==
    /\ Accepting
    /\ RecordsOf(topic) # {}
    /\ LET id == LatestRecord(topic)
       IN  /\ lesson_questions' = DeleteQuestions(id)
           /\ lesson_ai_results' = [lesson_ai_results EXCEPT
                                      ![id].status = "pending", ![id].progress = 0]
           /\ tasks' = Append(tasks, NewTask(id))
    /\ NoteOverlap(topic)
    /\ UNCHANGED <<balVars, pipeVars, fnVars>>

\* LessonAIService.update_lesson_status (service.py:63-98): the UPDATE and its commit,
\* or, when the store fails, a rollback and nothing else
update_lesson_status(results, lesson_id, status, progress, ok) ==
    IF ok THEN [results EXCEPT ![lesson_id].status = status,
                               ![lesson_id].progress = progress]
    ELSE results

\* router.py:84-87 and 141-143: download_file_from_s3 returns, or raises and the task
\* ends in the outer except
BgDownload(t) ==
    /\ tasks[t].pc = "queued"
    /\ \E ok \in BOOLEAN :
          tasks' = [tasks EXCEPT ![t].pc = IF ok THEN "start" ELSE "finished"]
    /\ UNCHANGED <<lesson_ai_results, lesson_questions, overlapped, balVars, pipeVars, fnVars>>

\* service.py:117-131
BgStart(t) ==
    /\ tasks[t].pc = "start"
    /\ \E ok \in BOOLEAN :
          lesson_ai_results' = update_lesson_status(lesson_ai_results, tasks[t].lesson_id,
                                                    "processing", 5, ok)
    /\ tasks' = [tasks EXCEPT ![t].pc = "extract", ![t].reports = Append(@, 5)]
    /\ UNCHANGED <<lesson_questions, overlapped, balVars, pipeVars, fnVars>>

\* the texts extract_text_from_file returns in this model
ExtractedTexts ==
    {[name |-> "lesson", words |-> w, empty |-> (w = 0)] : w \in {0, 1}}

\* service.py:133-169: extraction, the two UPDATEs of extracted_text and summary with
\* their commits, the status updates 30 and 50 and the report of 30
BgExtract(t) ==
    /\ tasks[t].pc = "extract"
    /\ \/ \* extract_text_from_file raises
          /\ tasks' = [tasks EXCEPT ![t].pc = "handler", ![t].cause = "extraction"]
          /\ UNCHANGED lesson_ai_results
       \/ \E text \in ExtractedTexts, text_ok, s30_ok, summary_ok, s50_ok \in BOOLEAN :
             LET id == tasks[t].lesson_id
                 after30 == update_lesson_status(lesson_ai_results, id, "processing", 30,
                                                 s30_ok)
             IN  IF text.words = 0
                 THEN \* raise ValueError("No readable text found in document.")
                      /\ tasks' = [tasks EXCEPT ![t].pc = "handler",
                                                ![t].cause = "empty_text"]
                      /\ UNCHANGED lesson_ai_results
                 ELSE IF ~text_ok
                 THEN /\ tasks' = [tasks EXCEPT ![t].pc = "handler",
                                                ![t].cause = "storage"]
                      /\ UNCHANGED lesson_ai_results
                 ELSE IF ~summary_ok
                 THEN /\ tasks' = [tasks EXCEPT ![t].pc = "handler",
                                                ![t].cause = "storage",
                                                ![t].reports = Append(@, 30)]
                      /\ lesson_ai_results' = after30
                 ELSE /\ tasks' = [tasks EXCEPT ![t].pc = "generate", ![t].text = text,
                                                ![t].reports = Append(@, 30)]
                      /\ lesson_ai_results' =
                            update_lesson_status(after30, id, "processing", 50, s50_ok)
    /\ UNCHANGED <<lesson_questions, overlapped, balVars, pipeVars, fnVars>>

\* the oracle replies and embeddings tried in the service runs
ServiceCalls ==
    { <<RawGarbage, RawGarbage, RawGarbage>>,
      <<RawArray(<<[type |-> <<"theory">>, question_text |-> q1, answer_text |-> <<"a">>,
                    difficulty |-> easy],
                   [type |-> <<"theory">>, question_text |-> q2, answer_text |-> <<"a">>]>>),
        RawRaise, RawGarbage>>,
      <<RawArray(<<[type |-> <<"theory">>, question_text |-> q3, answer_text |-> <<"a">>,
                    difficulty |-> NumberValue]>>), RawGarbage, RawGarbage>> }

ServiceEmbeds ==
    {[available |-> FALSE],
     [available |-> TRUE, angle |-> [x \in QTexts |-> IF x = q1 THEN 0 ELSE 60]]}

\* LessonQuestion(lesson_id=lesson_ai_result_id, ...); `run` records the inserting task
StoredRow(row, lesson_id, t) ==
    [lesson_id |-> lesson_id, run |-> t, question_text |-> row.question_text,
     answer_text |-> row.answer_text, difficulty |-> row.difficulty,
     max_score |-> row.max_score, option_a |-> row.option_a, option_b |-> row.option_b,
     option_c |-> row.option_c, option_d |-> row.option_d,
     correct_option |-> row.correct_option]

StoredRows(rows, lesson_id, t) == [i \in 1..Len(rows) |-> StoredRow(rows[i], lesson_id, t)]

\* db.add(...) for every row, then db.commit(): all rows, or on failure none (the
\* handler's db.rollback() discards the pending rows)
CommitRows(questions, rows, lesson_id, t, ok) ==
    IF ok THEN questions \o StoredRows(rows, lesson_id, t) ELSE questions

\* what follows the pipeline run r of task t: the exception handler when it raised
\* or its commit failed, else the rows stored and the task at its last status updates
PipelineOutcome(t, r, commit_ok, sent) ==
    IF r.raised
    THEN /\ tasks' = [tasks EXCEPT ![t].pc = "handler", ![t].cause = "pipeline",
                                   ![t].text = NoPipeIn.lesson_text,
                                   ![t].reports = @ \o sent]
         /\ UNCHANGED lesson_questions
    ELSE /\ lesson_questions' = CommitRows(lesson_questions, r.rows,
                                           tasks[t].lesson_id, t, commit_ok)
         /\ tasks' = [tasks EXCEPT
                        ![t].pc = IF commit_ok THEN "mark" ELSE "handler",
                        ![t].cause = IF commit_ok THEN "none" ELSE "commit",
                        ![t].text = NoPipeIn.lesson_text,
                        ![t].reports = @ \o sent]

\* service.py:171-179 with ai_pipeline.generate_questions_from_lesson
BgGenerate(t) ==
    /\ tasks[t].pc = "generate"
    /\ \E raws \in [1..NumCalls(tasks[t].text.words) -> ServiceCalls],
          embed \in ServiceEmbeds, commit_ok \in BOOLEAN :
          PipelineOutcome(t, generate_questions_from_lesson(tasks[t].text, raws, embed),
                          commit_ok,
                          PipelineReports(tasks[t].text, raws, embed, commit_ok))
    /\ UNCHANGED <<lesson_ai_results, overlapped, balVars, pipeVars, fnVars>>

\* service.py:184-191: status 90, status done, db.refresh(lesson) and the last report,
\* "done" 100; tasks[t].reports holds the values sent by a run while it is active
BgMarkDone(t) ==
    /\ tasks[t].pc = "mark"
    /\ \E s90_ok, done_ok, refresh_ok \in BOOLEAN :
          /\ lesson_ai_results' =
                update_lesson_status(
                    update_lesson_status(lesson_ai_results, tasks[t].lesson_id,
                                         "processing", 90, s90_ok),
                    tasks[t].lesson_id, "done", 100, done_ok)
          /\ tasks' = [tasks EXCEPT
                         ![t].pc = IF refresh_ok THEN "finished" ELSE "handler",
                         ![t].cause = IF refresh_ok THEN "none" ELSE "storage",
                         ![t].reports = IF refresh_ok THEN << >> ELSE @]
    /\ UNCHANGED <<lesson_questions, overlapped, balVars, pipeVars, fnVars>>

\* service.py:195-202 and router.py:141-143: rollback, status failed, the last report
\* ("failed", 0), re-raise
BgHandler(t) ==
    /\ tasks[t].pc = "handler"
    /\ \E failed_ok \in BOOLEAN :
          /\ lesson_ai_results' = update_lesson_status(lesson_ai_results,
                                                       tasks[t].lesson_id, "failed", 100,
                                                       failed_ok)
          /\ tasks' = [tasks EXCEPT ![t].pc = "finished", ![t].cause = "none",
                                    ![t].reports = << >>]
    /\ UNCHANGED <<lesson_questions, overlapped, balVars, pipeVars, fnVars>>

Init ==
    /\ BalIdle /\ PipeIdle /\ FnIdle
    /\ lesson_ai_results = << >>
    /\ lesson_questions = << >>
    /\ tasks = << >>
    /\ overlapped = [topic \in Topics |-> FALSE]

Next ==
    \/ \E topic \in Topics : ProcessLessonEndpoint(topic)
    \/ \E topic \in Topics : RegenerateLessonAi(topic)
    \/ \E t \in 1..Len(tasks) : BgDownload(t)
    \/ \E t \in 1..Len(tasks) : BgStart(t)
    \/ \E t \in 1..Len(tasks) : BgExtract(t)
    \/ \E t \in 1..Len(tasks) : BgGenerate(t)
    \/ \E t \in 1..Len(tasks) : BgMarkDone(t)
    \/ \E t \in 1..Len(tasks) : BgHandler(t)

Spec == Init /\ [][Next]_vars

RowsOfRecord(lesson_id) == SelectSeq(lesson_questions, LAMBDA r : r.lesson_id = lesson_id)

RowsOfTopic(topic) ==
    SelectSeq(lesson_questions,
              LAMBDA r : lesson_ai_results[r.lesson_id].lesson_topic_id = topic)

RunsIn(rows) == {rows[i].run : i \in 1..Len(rows)}

TasksOn(lesson_id) == {t \in 1..Len(tasks) : tasks[t].lesson_id = lesson_id}

RowSet(questions) == {questions[i] : i \in 1..Len(questions)}

\* C21: the prior generation is deleted in the same transaction that inserts the new
\* set: no step removes stored questions without storing new ones, so a failed re-run
\* leaves the prior questions in place and no reader sees the lesson without both.
C21_AtomicReplace ==
    [][ RowSet(lesson_questions) \ RowSet(lesson_questions') # {}
            => RowSet(lesson_questions') \ RowSet(lesson_questions) # {} ]_vars

\* "done" has been sent for the run of task t: 100 is reported with status "done"
\* only (ai_pipeline.py:303, 376; service.py:191)
DoneSent(t) ==
    /\ tasks[t].reports # << >>
    /\ tasks[t].reports[Len(tasks[t].reports)] = 100

\* C25: done is terminal for a run: once done has been written or reported for it,
\* no later step of the same run writes processing or failed to the run state.
C25_DoneTerminal ==
    [][ \A t \in 1..Len(tasks) :
            ( /\ DoneSent(t)
              /\ tasks'[t] # tasks[t]
              /\ lesson_ai_results'[tasks[t].lesson_id]
                    # lesson_ai_results[tasks[t].lesson_id] )
            => lesson_ai_results'[tasks[t].lesson_id].status = "done" ]_vars

\* C17: within a run, the progress values sent to the reporter never decrease from
\* one update to the next and stay within 0..100.
C17_MonotoneProgress ==
    \A t \in 1..Len(tasks) :
        /\ \A k \in 1..Len(tasks[t].reports) : tasks[t].reports[k] \in 0..100
        /\ \A k \in 1..(Len(tasks[t].reports) - 1) :
              tasks[t].reports[k] <= tasks[t].reports[k + 1]

\* C1: when the runs of a lesson topic were made one after another and all have
\* completed, the questions stored for the topic were inserted by one run only:
\* questions of earlier runs do not accumulate.
C1_OneGeneration ==
    \A topic \in Topics :
        (/\ ~overlapped[topic]
         /\ TasksOf(topic) # {}
         /\ \A t \in TasksOf(topic) : ~Active(t))
        => Cardinality(RunsIn(RowsOfTopic(topic))) <= 1

\* C2: once every run on a lesson record has finished, overlapping or not, the record
\* holds the questions of at most one run.
C2_OverlapOneGeneration ==
    \A id \in 1..Len(lesson_ai_results) :
        (\A t \in TasksOn(id) : ~Active(t))
        => Cardinality(RunsIn(RowsOfRecord(id))) <= 1

\* C5: whenever a lesson record's status is done, at least one question is stored for
\* that record.
C5_DoneHasQuestion ==
    \A id \in 1..Len(lesson_ai_results) :
        lesson_ai_results[id].status = "done" => RowsOfRecord(id) # << >>

\* C6: a started run reaches a terminal status: once every background task of a record
\* has ended, the stored status of the record is done or failed.
C6_TerminalStatus ==
    \A id \in 1..Len(lesson_ai_results) :
        (\A t \in TasksOn(id) : ~Active(t))
        => lesson_ai_results[id].status \in {"done", "failed"}

\* the failures counted as storage-layer faults: a failed commit or refresh, and a
\* downloaded file that cannot be read
StorageCauses == {"storage", "commit", "extraction"}

\* C7: a record's status becomes failed only in the handler of a run in which a
\* storage-layer operation failed.
C7_FailedOnlyOnStorage ==
    [][\A id \in 1..Len(lesson_ai_results) :
          (lesson_ai_results[id].status # "failed"
             /\ lesson_ai_results'[id].status = "failed")
          => \E t \in TasksOn(id) : /\ tasks[t].pc = "handler"
                                    /\ tasks'[t].pc = "finished"
                                    /\ tasks[t].cause \in StorageCauses]_vars

\* C8: when the commit of a run's question set fails, the handler leaves none of that
\* run's questions stored and the record's status failed.
C8_CommitFailure ==
    [][\A t \in 1..Len(tasks) :
          (tasks[t].pc = "handler" /\ tasks[t].cause = "commit"
             /\ tasks'[t].pc = "finished")
          => /\ t \notin RunsIn(lesson_questions')
             /\ lesson_ai_results'[tasks[t].lesson_id].status = "failed"]_vars

----------------------------------------------------------------------------
(* Helper functions applied to bounded inputs: the validator on one             *)
(* multiple-choice item, the duplicate gate, the response extractor.            *)

Cities == << <<"Paris">>, <<"Lon", "don">>, <<"Rome">>, <<"Berlin">> >>
CitiesLondonFirst == << <<"Lon", "don">>, <<"Paris">>, <<"Rome">>, <<"Berlin">> >>

\* the correct_answer values tried against the four options
AnswerPool ==
    { <<"Paris">>, <<"paris", " ">>, <<"Lon">>, <<"The", " ", "Berlin">>,
      <<"Rome", ".">>, <<"zzz">>, <<"Lon", "don">>, << >> }

\* words of 300 and of 250 characters
LongWord == "<300 characters>"
EdgeWord == "<250 characters>"

\* len(text) of a text kept as tokens
TokChars(tok) == CASE tok = LongWord -> 300 [] tok = EdgeWord -> 250 [] OTHER -> Len(tok)

RECURSIVE CharLen(_)
CharLen(text) == IF text = << >> THEN 0 ELSE TokChars(Head(text)) + CharLen(Tail(text))

\* the question texts of the item
QuestionTextPool == {q1, <<LongWord>>, <<EdgeWord>>, <<" ", "q", LongWord>>}

ValidateInputs ==
    [fn : {"validate"}, question_text : QuestionTextPool,
     options : {Cities, CitiesLondonFirst}, correct_answer : AnswerPool]

McqItem(q_text, options, correct_answer) ==
    [type |-> <<"mcq">>, question_text |-> q_text, options |-> options,
     correct_answer |-> correct_answer]

MaxDedupe == 4      \* longest list handed to the duplicate gate

DedupeAngles == {0, 30, 32, 60}

\* n candidates with texts q1..qn
NumberedCandidates(n) ==
    [i \in 1..n |-> TheoryCandidate(<<"q", ToString(i)>>, <<"a">>, medium)]

\* the embeddings get_embeddings_cached returns for them: one direction per text
DedupeInputs ==
    UNION {[fn : {"dedupe"}, questions : {NumberedCandidates(n)},
            angle : [{<<"q", ToString(i)>> : i \in 1..n} -> DedupeAngles]] :
           n \in 0..MaxDedupe}

(***************************************************************************)
(* question_generator._extract_json_robust on the reply itself.  A JSON    *)
(* value is [py, items]: a list of question objects, null, a number, a     *)
(* string, a mapping with a "questions" key (items is its value) or a      *)
(* mapping without one (items is the question object).  A reply text is a  *)
(* sequence of tokens [k, v]: brackets, commas, the opening                *)
(* {"questions": of a mapping and its closing brace, code fences,          *)
(* whitespace, prose words, scalar literals, and one token per serialised  *)
(* question object (v is the object).  The strings inside an object are    *)
(* sequences of string tokens, among them "<fence>" and "}]", because the      *)
(* regular expressions of the function work on those characters too.       *)
(* The reply classes RawArray/RawGarbage/RawNonList above stand for texts  *)
(* on which this function returns the list, nothing, or raises.            *)
(***************************************************************************)
PyList(items) == [py |-> "list", items |-> items]
PyNull == [py |-> "null", items |-> << >>]
PyNumber == [py |-> "number", items |-> << >>]
PyStr == [py |-> "str", items |-> << >>]
PyQuestionsDict(value) == [py |-> "qdict", items |-> value]
PyDict(item) == [py |-> "dict", items |-> item]

Tok(k) == [k |-> k, v |-> << >>]
ObjTok(item) == [k |-> "obj", v |-> item]

ScalarKinds == {"null", "number", "str"}

Returned(value) == [raised |-> FALSE, value |-> value]
Raised == [raised |-> TRUE, value |-> PyNull]

\* the two re.sub calls that delete code fences and the whitespace after them
RECURSIVE SubFences(_, _, _, _)
SubFences(s, IsFence(_), IsSpace(_), eating) ==
    IF s = << >> THEN << >>
    ELSE IF IsFence(Head(s)) THEN SubFences(Tail(s), IsFence, IsSpace, TRUE)
    ELSE IF eating /\ IsSpace(Head(s)) THEN SubFences(Tail(s), IsFence, IsSpace, TRUE)
    ELSE <<Head(s)>> \o SubFences(Tail(s), IsFence, IsSpace, FALSE)

SubFencesStr(str) ==
    SubFences(str, LAMBDA t : t \in {"<fence>", "<fence_json>"}, LAMBDA t : t = " ", FALSE)

\* the same two substitutions inside the strings of a serialised object
SubFencesObj(item) ==
    [f \in DOMAIN item |->
        IF f = "options"
        THEN [i \in DOMAIN item[f] |-> SubFencesStr(item[f][i])]
        ELSE SubFencesStr(item[f])]

SubFencesTok(t) == IF t.k = "obj" THEN ObjTok(SubFencesObj(t.v)) ELSE t

SubFencesText(text) ==
    LET top == SubFences(text, LAMBDA t : t.k \in {"fence", "fence_json"},
                         LAMBDA t : t.k = "sp", FALSE)
    IN  [i \in DOMAIN top |-> SubFencesTok(top[i])]

\* str.strip() on a reply text
StripText(text) ==
    LET idx == {i \in DOMAIN text : text[i].k # "sp"}
    IN  IF idx = {} THEN << >>
        ELSE SubSeq(text, CHOOSE i \in idx : \A j \in idx : i <= j,
                          CHOOSE i \in idx : \A j \in idx : i >= j)

NoSpace(text) == SelectSeq(text, LAMBDA t : t.k # "sp")

\* "[" object ("," object)* "]" or "[" "]", whitespace already removed
IsArray(n) ==
    /\ Len(n) >= 2 /\ n[1].k = "lb" /\ n[Len(n)].k = "rb"
    /\ Len(n) = 2 \/ Len(n) % 2 = 1
    /\ \A i \in 2..(Len(n) - 1) : n[i].k = (IF i % 2 = 0 THEN "obj" ELSE "comma")

ArrayItems(n) == [j \in 1..((Len(n) - 1) \div 2) |-> n[2 * j].v]

\* json.loads: the value, or "error" for JSONDecodeError
JsonLoads(text) ==
    LET n == NoSpace(text)
    IN  IF IsArray(n) THEN PyList(ArrayItems(n))
        ELSE IF Len(n) = 1 /\ n[1].k = "obj" THEN PyDict(n[1].v)
        ELSE IF Len(n) = 1 /\ n[1].k \in ScalarKinds THEN [py |-> n[1].k, items |-> << >>]
        ELSE IF Len(n) >= 3 /\ n[1].k = "qopen" /\ n[Len(n)].k = "cb"
        THEN LET inner == SubSeq(n, 2, Len(n) - 1)
             IN  IF IsArray(inner) THEN PyQuestionsDict(PyList(ArrayItems(inner)))
                 ELSE IF Len(inner) = 1 /\ inner[1].k \in ScalarKinds
                 THEN PyQuestionsDict([py |-> inner[1].k, items |-> << >>])
                 ELSE [py |-> "error", items |-> << >>]
        ELSE [py |-> "error", items |-> << >>]

\* a list or a mapping, given natively or parsed directly: lines 151-159 and 172-179.
\* len(...) of the "questions" value is evaluated for the debug line and only
\* JSONDecodeError is caught around it.
HasLen(value) == value.py \notin {"null", "number"}

ListOrDict(value) ==
    CASE value.py = "list" -> Returned(value)
      [] value.py = "qdict" -> IF HasLen(value.items) THEN Returned(value.items) ELSE Raised
      [] value.py = "dict" -> Returned(PyList(<<value.items>>))

\* a serialised object with a brace inside one of its strings
HasBrace(item) ==
    \E f \in DOMAIN item :
        IF f = "options"
        THEN \E i \in DOMAIN item[f] : \E k \in DOMAIN item[f][i] : item[f][i][k] = "}]"
        ELSE \E k \in DOMAIN item[f] : item[f][k] = "}]"

\* array_pattern from the "[" at position i: the lazy match ends at the first "}"
\* that a "]" follows, inside a string or not; the items of the match when
\* json.loads accepts it, "error" otherwise
RECURSIVE ArrayMatch(_, _, _)
ArrayMatch(n, i, items) ==
    IF i > Len(n) \/ n[i].k # "obj" \/ HasBrace(n[i].v) THEN [py |-> "error", items |-> << >>]
    ELSE IF i + 1 <= Len(n) /\ n[i + 1].k = "rb" THEN PyList(Append(items, n[i].v))
    ELSE IF i + 1 <= Len(n) /\ n[i + 1].k = "comma"
    THEN ArrayMatch(n, i + 2, Append(items, n[i].v))
    ELSE [py |-> "error", items |-> << >>]

\* re.findall(array_pattern): the first match that parses to a non-empty list
ArrayPattern(text) ==
    LET n == NoSpace(text)
        starts == {i \in 1..(Len(n) - 1) : n[i].k = "lb" /\ n[i + 1].k = "obj"}
        good == {i \in starts : ArrayMatch(n, i + 1, << >>).py = "list"}
    IN  IF good = {} THEN << >>
        ELSE ArrayMatch(n, 1 + CHOOSE i \in good : \A j \in good : i <= j, << >>).items

\* single_obj_pattern: the objects without braces inside whose type is spelled
\* mcq or theory.  obj_pattern before it yields an empty list or nothing on the
\* texts built from these tokens, because array_pattern has already matched
\* every questions array that holds an object.
SingleObjects(text) ==
    LET objs == SelectSeq(text, LAMBDA t : /\ t.k = "obj" /\ ~HasBrace(t.v)
                                           /\ "type" \in DOMAIN t.v
                                           /\ t.v.type \in {<<"mcq">>, <<"theory">>})
    IN  [i \in DOMAIN objs |-> objs[i].v]

Patterns(text) ==
    IF ArrayPattern(text) # << >> THEN ArrayPattern(text) ELSE SingleObjects(text)

ExtractParsed(text, parsed) ==
    IF parsed.py \in {"list", "qdict", "dict"} THEN ListOrDict(parsed)
    ELSE Returned(PyList(Patterns(text)))

ExtractText(text) ==
    ExtractParsed(SubFencesText(StripText(text)), JsonLoads(SubFencesText(StripText(text))))

\* str(raw) of a value that is neither list nor mapping nor str: one word
\* _extract_json_robust on a native value or on a reply text
ExtractJson(raw) ==
    IF raw.kind = "text" THEN ExtractText(raw.value)
    ELSE IF raw.value.py \in {"list", "qdict", "dict"} THEN ListOrDict(raw.value)
    ELSE ExtractText(<<Tok("word")>>)

\* the encodings of a list of question objects
RECURSIVE JoinObjects(_)
JoinObjects(list) ==
    IF list = << >> THEN << >>
    ELSE IF Len(list) = 1 THEN <<ObjTok(list[1])>>
    ELSE <<ObjTok(Head(list)), Tok("comma"), Tok("sp")>> \o JoinObjects(Tail(list))

BareArray(list) == <<Tok("lb")>> \o JoinObjects(list) \o <<Tok("rb")>>

Encode(enc, list) ==
    CASE enc = "bare" -> [kind |-> "text", value |-> BareArray(list)]
      [] enc = "fenced" ->
            [kind |-> "text",
             value |-> <<Tok("fence_json"), Tok("sp")>> \o BareArray(list)
                           \o <<Tok("sp"), Tok("fence")>>]
      [] enc = "prose" ->
            [kind |-> "text",
             value |-> <<Tok("word"), Tok("sp")>> \o BareArray(list)
                           \o <<Tok("sp"), Tok("word")>>]
      [] enc = "object_text" ->
            [kind |-> "text",
             value |-> <<Tok("qopen"), Tok("sp")>> \o BareArray(list) \o <<Tok("cb")>>]
      [] enc = "object_native" ->
            [kind |-> "native", value |-> PyQuestionsDict(PyList(list))]

Encodings == {"bare", "fenced", "prose", "object_text", "object_native"}

MaxList == 2        \* longest list of question objects encoded

ExtractItems ==
    { [type |-> <<"theory">>, question_text |-> q1, correct_answer |-> <<"a">>],
      [type |-> <<"mcq">>, question_text |-> q2, options |-> GoodOptions,
       correct_answer |-> <<"Paris">>],
      [type |-> <<"theory">>, question_text |-> <<"What", " ", "does", " ", "<fence>", " ", "x">>,
       correct_answer |-> <<"a">>],
      [type |-> <<"theory">>, question_text |-> <<"Close", " ", "}]">>,
       correct_answer |-> <<"a">>] }

\* other replies: scalars, a mapping whose questions value is no list, bare prose
OtherReplies ==
    { [kind |-> "native", value |-> v] :
        v \in {PyNull, PyNumber, PyList(<< >>), PyQuestionsDict(PyNull),
               PyQuestionsDict(PyNumber), PyQuestionsDict(PyStr),
               PyDict([type |-> <<"theory">>, question_text |-> q1,
                       correct_answer |-> <<"a">>])} }
    \cup { [kind |-> "text", value |-> t] :
             t \in { << >>, <<Tok("word"), Tok("sp"), Tok("word")>>, <<Tok("null")>>,
                     <<Tok("number")>>, <<Tok("str")>>,
                     <<Tok("qopen"), Tok("sp"), Tok("null"), Tok("cb")>>,
                     <<Tok("qopen"), Tok("number"), Tok("cb")>>,
                     <<Tok("qopen"), Tok("str"), Tok("cb")>>,
                     <<Tok("word"), Tok("sp"), Tok("qopen"), Tok("null"), Tok("cb")>>,
                     <<Tok("fence"), Tok("sp"), Tok("lb"), Tok("rb"), Tok("sp"),
                       Tok("fence")>> } }

ExtractInputs ==
    { [fn |-> "extract", enc |-> enc, list |-> list, raw |-> Encode(enc, list)] :
        enc \in Encodings, list \in SeqsUpTo(ExtractItems, MaxList) }
    \cup { [fn |-> "extract", enc |-> "other", list |-> << >>, raw |-> raw] :
             raw \in OtherReplies }

(***************************************************************************)
(* ai_pipeline.get_embeddings_cached.  The sentence model is external: it  *)
(* returns one vector per text, and all-MiniLM-L6-v2 reads its input       *)
(* uncased and without surrounding whitespace, so the vector of a text is  *)
(* kept as the text it was computed from, trimmed and lower-cased.  A hash *)
(* is kept as the string it is the digest of.                              *)
(***************************************************************************)

MaxEmbedCalls == 2  \* embedding requests in one behaviour

\* the lists of texts requested
EmbedRequests ==
    { << <<"a">> >>, << <<"A", " ">> >>, << <<"b">> >>,
      << <<"a">>, <<"b">> >>, << <<"b">>, <<"a">> >>, << <<"a", "|", "b">> >> }

\* "|".join(parts)
RECURSIVE JoinBar(_)
JoinBar(parts) ==
    IF parts = << >> THEN << >>
    ELSE IF Len(parts) = 1 THEN Head(parts)
    ELSE Head(parts) \o <<"|">> \o JoinBar(Tail(parts))

\* _hash_texts: sha256 of the joined, trimmed and lower-cased texts
hash_texts(texts) == JoinBar([i \in 1..Len(texts) |-> lower(strip(texts[i]))])

\* the vector the sentence model computes for one text
Embedding(text) == [vector_of |-> lower(strip(text))]

\* model.encode(texts, ...)
ModelEncode(texts) == [i \in 1..Len(texts) |-> Embedding(texts[i])]

\* cache_file.exists()
CacheExists(cache, key) == \E f \in cache : f.key = key

\* pickle.load(f)
CacheLoad(cache, key) == (CHOOSE f \in cache : f.key = key).value

\* pickle.dump(embeddings, f) into the file of that key
CacheDump(cache, key, embeddings) ==
    {f \in cache : f.key # key} \cup {[key |-> key, value |-> embeddings]}

EmbedInputs ==
    [fn : {"embed"},
     requests : UNION {[1..n -> EmbedRequests] : n \in 1..MaxEmbedCalls}]

FnInputs == ValidateInputs \cup DedupeInputs \cup ExtractInputs \cup EmbedInputs

FnInit ==
    /\ BalIdle /\ PipeIdle /\ SysIdle
    /\ fn_in \in FnInputs
    /\ fn_out = NoFnOut
    /\ embed_cache = {}

\* _validate_questions_robust on a reply holding the one item
ApplyValidate ==
    /\ fn_in.fn = "validate" /\ fn_out = NoFnOut
    /\ fn_out' = [state |-> "returned",
                  value |-> validate_questions_robust(
                                <<McqItem(fn_in.question_text, fn_in.options,
                                          fn_in.correct_answer)>>)]
    /\ UNCHANGED <<fn_in, embed_cache, balVars, pipeVars, sysVars>>

\* semantic_dedupe, the result as indices into questions
ApplyDedupe ==
    /\ fn_in.fn = "dedupe" /\ fn_out = NoFnOut
    /\ fn_out' = [state |-> "returned",
                  value |-> semantic_dedupe_idx(fn_in.questions, fn_in.angle)]
    /\ UNCHANGED <<fn_in, embed_cache, balVars, pipeVars, sysVars>>

\* _extract_json_robust
ApplyExtract ==
    /\ fn_in.fn = "extract" /\ fn_out = NoFnOut
    /\ fn_out' = IF ExtractJson(fn_in.raw).raised THEN [state |-> "raised"]
                 ELSE [state |-> "returned", value |-> ExtractJson(fn_in.raw).value]
    /\ UNCHANGED <<fn_in, embed_cache, balVars, pipeVars, sysVars>>

\* the embedding requests answered so far
CallsDone == IF fn_out = NoFnOut THEN 0 ELSE fn_out.call

\* the next call of get_embeddings_cached; read_ok, write_ok: whether reading and
\* writing the cache file succeed (both failures are caught, lines 69 and 79)
EmbedReturn(texts, embeddings) ==
    [state |-> "returned", value |-> embeddings, call |-> CallsDone + 1]

CacheHit(cache, texts, read_ok) == CacheExists(cache, hash_texts(texts)) /\ read_ok

GetEmbeddingsCached ==
    /\ fn_in.fn = "embed"
    /\ CallsDone < Len(fn_in.requests)
    /\ \E read_ok, write_ok \in BOOLEAN :
          IF CacheHit(embed_cache, fn_in.requests[CallsDone + 1], read_ok)
          THEN /\ fn_out' = EmbedReturn(fn_in.requests[CallsDone + 1],
                                        CacheLoad(embed_cache,
                                                  hash_texts(fn_in.requests[CallsDone + 1])))
               /\ UNCHANGED embed_cache
          ELSE /\ fn_out' = EmbedReturn(fn_in.requests[CallsDone + 1],
                                        ModelEncode(fn_in.requests[CallsDone + 1]))
               /\ embed_cache' =
                     IF write_ok
                     THEN CacheDump(embed_cache, hash_texts(fn_in.requests[CallsDone + 1]),
                                    ModelEncode(fn_in.requests[CallsDone + 1]))
                     ELSE embed_cache
    /\ UNCHANGED <<fn_in, balVars, pipeVars, sysVars>>

FnNext == ApplyValidate \/ ApplyDedupe \/ ApplyExtract \/ GetEmbeddingsCached

SpecFn == FnInit /\ [][FnNext]_vars

\* C28: the texts the validator emits are bounded: a text of more than 250 characters
\* comes out as 250 characters followed by an ellipsis, a text of at most 250
\* characters comes out unchanged.
C28_TextBounded ==
    (fn_in.fn = "validate" /\ fn_out.state = "returned")
    => \A k \in DOMAIN fn_out.value :
          /\ IF CharLen(strip(fn_in.question_text)) > 250
             THEN /\ CharLen(fn_out.value[k].question_text) = 250 + Len("...")
                  /\ fn_out.value[k].question_text[Len(fn_out.value[k].question_text)]
                        = "..."
             ELSE fn_out.value[k].question_text = strip(fn_in.question_text)
          /\ CharLen(fn_out.value[k].answer_text) <= 250

\* C30: every answer of get_embeddings_cached holds one vector per text of the
\* request, the i-th being the embedding of the i-th text, whatever was requested
\* and cached before.
C30_CacheExact ==
    (fn_in.fn = "embed" /\ fn_out.state = "returned")
    => fn_out.value = ModelEncode(fn_in.requests[fn_out.call])

\* a is a substring of b
IsSubstring(a, b) ==
    \E i \in 0..(Len(b) - Len(a)) : SubSeq(b, i + 1, i + Len(a)) = a

\* the answer and the option match by the substring rule, in either direction
SubstringMatch(opt, ans) ==
    LET o == strip(lower(opt))
        a == strip(lower(ans))
    IN  a # << >> /\ o # << >> /\ (IsSubstring(a, o) \/ IsSubstring(o, a))

\* C11: when a 4-option item's correct_answer matches no option exactly or by the
\* case-insensitive trimmed rule but matches some option by the substring rule, the
\* emitted correct_option is the letter of the first option it matches that way.
C11_SubstringStep ==
    (fn_in.fn = "validate" /\ fn_out.state = "returned")
    => LET options == fn_in.options
           ans == fn_in.correct_answer
           hits == SelectSeq(Indices(options), LAMBDA i : SubstringMatch(options[i], ans))
       IN  (/\ ~InList(options, ans)
            /\ CaseInsensitiveMatches(options, ans) = << >>
            /\ hits # << >>)
           => /\ Len(fn_out.value) = 1
              /\ fn_out.value[1].correct_option = OptionLetters[Head(hits)]

\* cosine similarity of candidates i and j of the dedupe input, in hundredths
Sim(i, j) ==
    CosHundredths(fn_in.angle[fn_in.questions[i].question_text],
                  fn_in.angle[fn_in.questions[j].question_text])

KeptSet == {fn_out.value[k] : k \in 1..Len(fn_out.value)}

C13_SameList ==
    (fn_in.fn = "extract" /\ fn_in.enc \in Encodings /\ fn_out # NoFnOut)
    => fn_out = [state |-> "returned", value |-> PyList(fn_in.list)]

\* C14: for every input the extractor returns, and what it returns is a list.
C14_AlwaysList ==
    (fn_in.fn = "extract" /\ fn_out # NoFnOut)
    => fn_out.state = "returned" /\ fn_out.value.py = "list"

====
